---------------------------- MODULE Spec2Model ----------------------------
(***************************************************************************)
(* A model of conjure-up's provider capability layer                       *)
(* (src/conjureup/models/provider.py): Field/Form validation, the provider *)
(* registry, BaseProvider.load, the MAAS endpoint validator, the LXD       *)
(* network / storage-pool listings, vSphere datacenter discovery and the   *)
(* AWS CLI profile setup.                                                  *)
(*                                                                         *)
(* Python strings are modelled as sequences of one-character strings, so   *)
(* that startswith, split, find and the URL functions are computed the way *)
(* the code computes them.                                                 *)
(***************************************************************************)
EXTENDS Integers, Sequences, FiniteSets, TLC

(***************************************************************************)
(* String helpers (Python str methods on sequences of characters).         *)
(***************************************************************************)

\* s[i:] for a 1-based i (the suffix starting at position i).
Drop(s, n) == SubSeq(s, n + 1, Len(s))

\* s[:n]
Take(s, n) == SubSeq(s, 1, n)

\* str.startswith
StartsWith(s, p) == Len(s) >= Len(p) /\ Take(s, Len(p)) = p

\* c in s, for a single character
HasChar(s, c) == \E i \in 1..Len(s) : s[i] = c

\* str.find(c) for a single character, 1-based; 0 when absent (Python: -1).
Find(s, c) ==
    IF \E i \in 1..Len(s) : s[i] = c
    THEN CHOOSE i \in 1..Len(s) : s[i] = c /\ \A j \in 1..(i - 1) : s[j] # c
    ELSE 0

\* str.rfind(c), 1-based; 0 when absent.
RFind(s, c) ==
    IF \E i \in 1..Len(s) : s[i] = c
    THEN CHOOSE i \in 1..Len(s) : s[i] = c /\ \A j \in (i + 1)..Len(s) : s[j] # c
    ELSE 0

\* sub in s, for a substring
Contains(s, sub) ==
    \E i \in 0..(Len(s) - Len(sub)) : SubSeq(s, i + 1, i + Len(sub)) = sub

\* s.split(c, 1)[0], and the rest after the first c ("" when c is absent)
BeforeChar(s, c) == IF HasChar(s, c) THEN Take(s, Find(s, c) - 1) ELSE s

AfterChar(s, c) == IF HasChar(s, c) THEN Drop(s, Find(s, c)) ELSE <<>>

\* str.split(c): the list of the pieces between the occurrences of c.
RECURSIVE Split(_, _)
Split(s, c) ==
    IF ~HasChar(s, c) THEN <<s>>
    ELSE <<BeforeChar(s, c)>> \o Split(AfterChar(s, c), c)

\* c.join(parts)
RECURSIVE Join(_, _)
Join(parts, c) ==
    IF Len(parts) = 0 THEN <<>>
    ELSE IF Len(parts) = 1 THEN parts[1]
    ELSE parts[1] \o <<c>> \o Join(Tail(parts), c)

\* The set of the elements of a sequence
Range(s) == {s[i] : i \in 1..Len(s)}

Digits == {"0", "1", "2", "3", "4", "5", "6", "7", "8", "9"}

LowerLetters ==
    {"a", "b", "c", "d", "e", "f", "g", "h", "i", "j", "k", "l", "m",
     "n", "o", "p", "q", "r", "s", "t", "u", "v", "w", "x", "y", "z"}

UpperLetters == {"A", "M", "S"}

Letters == LowerLetters \cup UpperLetters

\* str.lower() on the alphabet of the model (the upper-case letters are A, M, S).
LowerChar(c) == IF c = "A" THEN "a" ELSE IF c = "M" THEN "m" ELSE IF c = "S" THEN "s" ELSE c

Lower(s) == [i \in 1..Len(s) |-> LowerChar(s[i])]

DigitVal(c) ==
    CASE c = "0" -> 0 [] c = "1" -> 1 [] c = "2" -> 2 [] c = "3" -> 3
      [] c = "4" -> 4 [] c = "5" -> 5 [] c = "6" -> 6 [] c = "7" -> 7
      [] c = "8" -> 8 [] c = "9" -> 9

\* int(s) for a non-empty string of decimal digits
RECURSIVE DecVal(_)
DecVal(s) ==
    IF Len(s) = 0 THEN 0
    ELSE 10 * DecVal(Take(s, Len(s) - 1)) + DigitVal(s[Len(s)])

(***************************************************************************)
(* String constants of the source.                                         *)
(***************************************************************************)
HTTP == <<"h", "t", "t", "p">>
HTTPS == <<"h", "t", "t", "p", "s">>
MAAS_SEG == <<"M", "A", "A", "S">>
DEFAULT_PORT == <<"5", "2", "4", "0">>
SCHEME_SEP == <<":", "/", "/">>


(***************************************************************************)
(* urllib.parse, as called at provider.py:279, 287, 291 and 305.  The      *)
(* strings of the model hold no whitespace, no control characters, no ';'  *)
(* and no ']' or '@', so the stripping of blanks, the parameter split and  *)
(* the bracketed-host check have nothing to act on.                        *)
(***************************************************************************)

\* urllib.parse.scheme_chars
SchemeChars == Letters \cup Digits \cup {"+", "-", "."}

\* The members of urllib.parse.uses_relative and uses_netloc that begin with
\* "http" (every URL joined here has such a scheme, or none of the lists').
UsesRelative == {HTTP, HTTPS}

UsesNetloc == {HTTP, HTTPS}

\* The first position >= start of one of "/", "?", "#" in url, or Len(url)+1.
NetlocEnd(url, start) ==
    IF \E i \in start..Len(url) : url[i] \in {"/", "?", "#"}
    THEN CHOOSE i \in start..Len(url) :
            /\ url[i] \in {"/", "?", "#"}
            /\ \A j \in start..(i - 1) : url[j] \notin {"/", "?", "#"}
    ELSE Len(url) + 1

\* urlsplit: whether url[:i] is a scheme, i being url.find(':')
HasScheme(url, i) ==
    /\ i > 1
    /\ url[1] \in Letters
    /\ \A k \in 1..(i - 1) : url[k] \in SchemeChars

\* urlsplit, last step: the query is split off what precedes the fragment.
\* err is the ValueError("Invalid IPv6 URL") of an unbalanced bracket.
UrlSplitQuery(scheme, netloc, url, fragment) ==
    [err |-> HasChar(netloc, "[") # HasChar(netloc, "]"),
     scheme |-> scheme, netloc |-> netloc, path |-> BeforeChar(url, "?"),
     query |-> AfterChar(url, "?"), fragment |-> fragment]

\* urlsplit, after the scheme: "//" starts a netloc, which ends at "/?#".
UrlSplitNetloc(scheme, url) ==
    IF StartsWith(url, <<"/", "/">>)
    THEN UrlSplitQuery(scheme, SubSeq(url, 3, NetlocEnd(url, 3) - 1),
                       BeforeChar(Drop(url, NetlocEnd(url, 3) - 1), "#"),
                       AfterChar(Drop(url, NetlocEnd(url, 3) - 1), "#"))
    ELSE UrlSplitQuery(scheme, <<>>, BeforeChar(url, "#"), AfterChar(url, "#"))

\* urlsplit(url, scheme=default): [err, scheme, netloc, path, query, fragment]
UrlSplit(url, default) ==
    IF HasScheme(url, Find(url, ":"))
    THEN UrlSplitNetloc(Lower(Take(url, Find(url, ":") - 1)), Drop(url, Find(url, ":")))
    ELSE UrlSplitNetloc(default, url)

\* urlunsplit: the netloc and the path
UrlNetlocPath(u) ==
    IF u.netloc # <<>>
         \/ (u.scheme # <<>> /\ u.scheme \in UsesNetloc
             /\ ~StartsWith(u.path, <<"/", "/">>))
    THEN <<"/", "/">> \o u.netloc
         \o (IF u.path # <<>> /\ u.path[1] # "/" THEN <<"/">> ELSE <<>>)
         \o u.path
    ELSE u.path

\* urlunsplit / ParseResult.geturl()
UrlUnsplit(u) ==
    (IF u.scheme # <<>> THEN u.scheme \o <<":">> ELSE <<>>)
    \o UrlNetlocPath(u)
    \o (IF u.query # <<>> THEN <<"?">> \o u.query ELSE <<>>)
    \o (IF u.fragment # <<>> THEN <<"#">> \o u.fragment ELSE <<>>)

\* The loop of urljoin that resolves "." and ".." segments.
RECURSIVE ResolveSegments(_, _)
ResolveSegments(segments, resolved) ==
    IF Len(segments) = 0 THEN resolved
    ELSE IF Head(segments) = <<".", ".">>
    THEN ResolveSegments(Tail(segments),
                         IF Len(resolved) > 0
                         THEN Take(resolved, Len(resolved) - 1)
                         ELSE resolved)
    ELSE IF Head(segments) = <<".">>
    THEN ResolveSegments(Tail(segments), resolved)
    ELSE ResolveSegments(Tail(segments), Append(resolved, Head(segments)))

\* segments[1:-1] = filter(None, segments[1:-1])
FilterInner(segments) ==
    IF Len(segments) < 3 THEN segments
    ELSE <<segments[1]>>
         \o SelectSeq(SubSeq(segments, 2, Len(segments) - 1), LAMBDA x : x # <<>>)
         \o <<segments[Len(segments)]>>

\* urljoin: the base path's segments without the last one, unless it is empty
BaseParts(parts) ==
    IF parts[Len(parts)] # <<>> THEN Take(parts, Len(parts) - 1) ELSE parts

\* urljoin: '/'.join(resolved_path) or '/'
JoinOrSlash(resolved) == IF Join(resolved, "/") = <<>> THEN <<"/">> ELSE Join(resolved, "/")

\* urljoin: the path of the result, for a relative path that starts with no "/".
\* A last segment "." or ".." leaves a trailing slash.
JoinedPath(bpath, path) ==
    JoinOrSlash(
        ResolveSegments(FilterInner(BaseParts(Split(bpath, "/")) \o Split(path, "/")),
                        <<>>)
        \o (IF path \in {<<".">>, <<".", ".">>} THEN << <<>> >> ELSE <<>>))

\* urljoin, with both URLs parsed: b the base, r the reference.
UrlJoinParsed(rel, b, r) ==
    IF b.err \/ r.err THEN [err |-> TRUE, url |-> <<>>]
    ELSE IF r.scheme # b.scheme \/ r.scheme \notin UsesRelative
    THEN [err |-> FALSE, url |-> rel]
    ELSE [err |-> FALSE,
          url |-> UrlUnsplit([scheme |-> r.scheme, netloc |-> b.netloc,
                              path |-> JoinedPath(b.path, r.path),
                              query |-> r.query, fragment |-> r.fragment])]

\* urljoin(base, rel) for a relative reference rel that is one plain path
\* segment (the code always joins "MAAS").  [err, url].
UrlJoin(base, rel) ==
    IF base = <<>> THEN [err |-> FALSE, url |-> rel]
    ELSE UrlJoinParsed(rel, UrlSplit(base, <<>>),
                       UrlSplit(rel, UrlSplit(base, <<>>).scheme))

(***************************************************************************)
(* ipaddress.ip_address, as called at provider.py:304.                     *)
(***************************************************************************)

\* IPv4Address._parse_octet: 1 to 3 decimal digits, no leading zero, <= 255.
IsOctet(s) ==
    /\ Len(s) \in 1..3
    /\ \A i \in 1..Len(s) : s[i] \in Digits
    /\ (Len(s) > 1 => s[1] # "0")
    /\ DecVal(s) <= 255

AllOctets(octets) == Len(octets) = 4 /\ \A i \in 1..4 : IsOctet(octets[i])

IsIPv4(s) == AllOctets(Split(s, "."))

HexDigits == Digits \cup {"a", "b", "c", "d", "e", "f", "A"}

\* IPv6Address._parse_hextet
IsHextet(s) == Len(s) \in 1..4 /\ \A i \in 1..Len(s) : s[i] \in HexDigits

\* The inner positions of parts that are empty: where "::" stands.
SkipIndexes(parts) == {i \in 2..(Len(parts) - 1) : parts[i] = <<>>}

\* parts_hi and parts_lo: the number of hextets before and after the "::"
PartsHi(parts, skip) == IF parts[1] = <<>> THEN skip - 2 ELSE skip - 1

PartsLo(parts, skip) ==
    IF parts[Len(parts)] = <<>> THEN Len(parts) - skip - 1 ELSE Len(parts) - skip

\* _ip_int_from_string with one "::", at position skip
IsIPv6Skipped(parts, skip) ==
    /\ (parts[1] = <<>> => PartsHi(parts, skip) = 0)
    /\ (parts[Len(parts)] = <<>> => PartsLo(parts, skip) = 0)
    /\ 8 - (PartsHi(parts, skip) + PartsLo(parts, skip)) >= 1
    /\ \A i \in 1..PartsHi(parts, skip) : IsHextet(parts[i])
    /\ \A i \in 1..PartsLo(parts, skip) : IsHextet(parts[Len(parts) - i + 1])

\* _ip_int_from_string on the parts, an IPv4 tail already replaced
IsIPv6Parts(parts) ==
    /\ Len(parts) <= 9
    /\ Cardinality(SkipIndexes(parts)) <= 1
    /\ IF SkipIndexes(parts) # {}
       THEN IsIPv6Skipped(parts, CHOOSE i \in SkipIndexes(parts) : TRUE)
       ELSE Len(parts) = 8 /\ \A i \in 1..Len(parts) : IsHextet(parts[i])

\* _ip_int_from_string: at least three parts; an IPv4 address as the last
\* part is replaced by the two hextets it stands for.
IsIPv6Split(parts) ==
    /\ Len(parts) >= 3
    /\ IF HasChar(parts[Len(parts)], ".")
       THEN /\ IsIPv4(parts[Len(parts)])
            /\ IsIPv6Parts(Take(parts, Len(parts) - 1) \o << <<"1">>, <<"1">> >>)
       ELSE IsIPv6Parts(parts)

\* IPv6Address(s) does not raise
IsIPv6(s) == IsIPv6Split(Split(s, ":"))

\* ipaddress.ip_address(s) does not raise ValueError
IsIPAddress(s) == IsIPv4(s) \/ IsIPv6(s)

(***************************************************************************)
(* conjureup.utils.is_valid_hostname: "a syntactically valid hostname (not *)
(* an IP)": dot-separated labels of letters, digits and hyphens, 1 to 63   *)
(* characters each, no hyphen first or last, at most 255 characters.       *)
(***************************************************************************)
IsHostLabel(l) ==
    /\ Len(l) \in 1..63
    /\ \A i \in 1..Len(l) : l[i] \in Letters \cup Digits \cup {"-"}
    /\ l[1] # "-"
    /\ l[Len(l)] # "-"

AllHostLabels(labels) == \A i \in 1..Len(labels) : IsHostLabel(labels[i])

is_valid_hostname(s) ==
    /\ Len(s) \in 1..255
    /\ AllHostLabels(Split(s, "."))
    /\ ~IsIPv4(s)

(***************************************************************************)
(* Field error texts and validator messages of the source.                 *)
(***************************************************************************)
MSG_NONE == ""

MSG_REQUIRED == "This field is required and cannot be empty."

MSG_NO_NETLOC ==
    "Unable to determine the web address, please use the format of http://maas-server.com:5240/MAAS"

MSG_FORMAT ==
    "Unable to validate that this entry is the correct format. Please use  the format of http://maas-server.com:5240/MAAS"

MSG_API_KEY ==
    "Could not determine tokens, usually indicates an error with the format of the API KEY."

(***************************************************************************)
(* MAAS._has_correct_endpoint on a Field value `endpoint`.                 *)
(* Result: [out, msg, value], out being "ok" for (True, None), "fail" for  *)
(* (False, msg) and "raise" for the ValueError urlparse raises outside the *)
(* try block; value is the Field's value after the call.                   *)
(***************************************************************************)

\* provider.py:305-307: the URL is built and stored, unless urljoin raises the
\* ValueError the except clause catches.
EndpointJoined(endpoint, joined) ==
    IF joined.err
    THEN [out |-> "fail", msg |-> MSG_FORMAT, value |-> endpoint]
    ELSE [out |-> "ok", msg |-> MSG_NONE, value |-> joined.url]

\* provider.py:304-311: ip_address(ip) decides.
EndpointFromIpPort(endpoint, ip, port) ==
    IF IsIPAddress(ip)
    THEN EndpointJoined(endpoint,
                        UrlJoin(HTTP \o SCHEME_SEP \o ip \o <<":">> \o port, MAAS_SEG))
    ELSE [out |-> "fail", msg |-> MSG_FORMAT, value |-> endpoint]

\* provider.py:298-303: two parts are ip and port, otherwise the last part is
\* the ip and the port is the default.
EndpointFromParts(endpoint, parts) ==
    IF Len(parts) = 2
    THEN EndpointFromIpPort(endpoint, parts[1], parts[2])
    ELSE EndpointFromIpPort(endpoint, parts[Len(parts)], DEFAULT_PORT)

\* provider.py:295-315, the try block and the final return.
EndpointFromIp(endpoint) == EndpointFromParts(endpoint, Split(endpoint, ":"))

\* provider.py:279-288, with url = urlparse(endpoint)
EndpointFromUrl(endpoint, url) ==
    IF url.err
    THEN [out |-> "raise", msg |-> MSG_NONE, value |-> endpoint]
    ELSE IF url.netloc = <<>>
    THEN [out |-> "fail", msg |-> MSG_NO_NETLOC, value |-> endpoint]
    ELSE IF ~Contains(url.path, MAAS_SEG)
    THEN [out |-> "ok", msg |-> MSG_NONE,
          value |-> UrlJoin(UrlUnsplit(url), MAAS_SEG).url]
    ELSE [out |-> "ok", msg |-> MSG_NONE, value |-> endpoint]

_has_correct_endpoint(endpoint) ==
    IF StartsWith(endpoint, HTTP)
    THEN EndpointFromUrl(endpoint, UrlSplit(endpoint, <<>>))
    ELSE IF is_valid_hostname(endpoint)
    THEN [out |-> "ok", msg |-> MSG_NONE,
          value |-> UrlJoin(HTTP \o SCHEME_SEP \o endpoint \o <<":">> \o DEFAULT_PORT,
                            MAAS_SEG).url]
    ELSE EndpointFromIp(endpoint)

\* MAAS._has_correct_api_key: exactly three colon-separated segments.
_has_correct_api_key(key) ==
    IF Len(Split(key, ":")) # 3
    THEN [out |-> "fail", msg |-> MSG_API_KEY, value |-> key]
    ELSE [out |-> "ok", msg |-> MSG_NONE, value |-> key]


(***************************************************************************)
(* Field and Form.                                                         *)
(* A Field is [label, widget, key, storable, required, validator, value,   *)
(* error]; value is the widget's value, error the text of the error        *)
(* widget.  validator is "none", the name of one of the two MAAS           *)
(* validators, "custom" for some other callable (its verdict is then an    *)
(* input), or "noncallable" for a truthy object that is not callable.      *)
(***************************************************************************)

\* Field.__init__ (required defaults to True, the error text starts empty).
Field(label, widget, key, storable, required, validator, default) ==
    [label |-> label, widget |-> widget, key |-> key, storable |-> storable,
     required |-> required, validator |-> validator, value |-> default,
     error |-> MSG_NONE]

\* The default arguments of Field.__init__ for a field that names none.
PlainField(label, widget, key) == Field(label, widget, key, TRUE, TRUE, "none", <<>>)

\* Form.field(key): the index of the first Field with that key, 0 for None.
FormField(form, key) ==
    IF \E i \in 1..Len(form) : form[i].key = key
    THEN CHOOSE i \in 1..Len(form) :
            form[i].key = key /\ \A j \in 1..(i - 1) : form[j].key # key
    ELSE 0

\* What the validator of field i of the form returns: the MAAS validators read
\* the value of the Field they look up by key; a custom validator's verdict is
\* the input `verdict`.
RunValidator(form, i, verdict) ==
    CASE form[i].validator = "endpoint" ->
            _has_correct_endpoint(form[FormField(form, "endpoint")].value)
      [] form[i].validator = "api_key" ->
            _has_correct_api_key(form[FormField(form, "maas-oauth")].value)
      [] OTHER -> verdict

\* The Field a MAAS validator rewrites (0: none).
ValidatorTarget(form, i) ==
    CASE form[i].validator = "endpoint" -> FormField(form, "endpoint")
      [] form[i].validator = "api_key" -> FormField(form, "maas-oauth")
      [] OTHER -> 0

\* Field.validate(), provider.py:69-73: r is what the validator returned on the
\* form `cleared`; a MAAS validator has written r.value into its Field.
ValidateWith(cleared, i, r) ==
    IF r.out = "raise"
    THEN [ret |-> "raise", invoked |-> TRUE, form |-> cleared]
    ELSE IF r.out = "fail"
    THEN [ret |-> "false", invoked |-> TRUE,
          form |-> [cleared EXCEPT ![i].error = r.msg]]
    ELSE IF ValidatorTarget(cleared, i) = 0
    THEN [ret |-> "true", invoked |-> TRUE, form |-> cleared]
    ELSE [ret |-> "true", invoked |-> TRUE,
          form |-> [cleared EXCEPT ![ValidatorTarget(cleared, i)].value = r.value]]

\* Field.validate() once the error text is cleared.
ValidateCleared(cleared, i, verdict) ==
    IF cleared[i].required /\ cleared[i].value = <<>>
    THEN [ret |-> "false", invoked |-> FALSE,
          form |-> [cleared EXCEPT ![i].error = MSG_REQUIRED]]
    ELSE IF cleared[i].validator \notin {"none", "noncallable"}
    THEN ValidateWith(cleared, i, RunValidator(cleared, i, verdict))
    ELSE [ret |-> "true", invoked |-> FALSE, form |-> cleared]

\* A validate() that does not clear the error text of the previous pass.
validate_KeepsError(form, i, verdict) == ValidateCleared(form, i, verdict)

\* Field.validate() on field i of a form.  [ret, invoked, form]: ret is "true",
\* "false" or "raise" (the validator raised), invoked tells whether the custom
\* validator was called, form is the form afterwards.
validate(form, i, verdict) ==
    ValidateCleared([form EXCEPT ![i].error = MSG_NONE], i, verdict)

\* The loop of BaseProvider.is_valid over fields i..Len(form): the calls made
\* so far (index and result of each validate()), stopping where one raises.
RECURSIVE IsValidLoop(_, _, _)
RECURSIVE IsValidStep(_, _, _)
\* An is_valid that returns at the first Field that fails.
IsValidStep_ShortCircuit(v, i, calls) ==
    IF v.ret # "true"
    THEN [form |-> v.form, calls |-> Append(calls, [idx |-> i, ret |-> v.ret]),
          raised |-> v.ret = "raise"]
    ELSE IsValidLoop(v.form, i + 1, Append(calls, [idx |-> i, ret |-> v.ret]))

IsValidStep(v, i, calls) ==
    IF v.ret = "raise"
    THEN [form |-> v.form, calls |-> Append(calls, [idx |-> i, ret |-> v.ret]),
          raised |-> TRUE]
    ELSE IsValidLoop(v.form, i + 1, Append(calls, [idx |-> i, ret |-> v.ret]))

IsValidLoop(form, i, calls) ==
    IF i > Len(form) THEN [form |-> form, calls |-> calls, raised |-> FALSE]
    ELSE IsValidStep(validate(form, i, [out |-> "ok", msg |-> MSG_NONE, value |-> <<>>]),
                     i, calls)

\* is_valid, provider.py:156-158: all(validations)
IsValidResult(r) ==
    [ret |-> IF r.raised THEN "raise"
             ELSE IF \A k \in 1..Len(r.calls) : r.calls[k].ret = "true"
             THEN "true" ELSE "false",
     calls |-> r.calls, form |-> r.form]

\* BaseProvider.is_valid(): [ret, calls, form].
is_valid(form) == IsValidResult(IsValidLoop(form, 1, <<>>))

(***************************************************************************)
(* Providers.  A Provider is a record of the attributes BaseProvider       *)
(* declares; Python's None is the atom None, names (cloud, endpoint,       *)
(* credential, region) are atoms, hasForm is FALSE where form is None.     *)
(***************************************************************************)
None == "None"

RSA_SHA256 == <<"r", "s", "a", "-", "s", "h", "a", "2", "5", "6">>

\* BaseProvider.__init__
BaseProvider ==
    [cls |-> "BaseProvider", auth_type |-> None, endpoint |-> None,
     cloud |-> None, cloud_type |-> None, regions |-> <<>>, region |-> None,
     credential |-> None, authenticated |-> FALSE, hasForm |-> FALSE,
     form |-> <<>>]

WithForm(cls, auth_type, cloud_type, form) ==
    [BaseProvider EXCEPT !.cls = cls, !.auth_type = auth_type,
                         !.cloud_type = cloud_type, !.hasForm = TRUE,
                         !.form = form]

AWS ==
    WithForm("AWS", "access-key", "ec2",
        << PlainField("AWS Access Key", "StringEditor", "access-key"),
           PlainField("AWS Secret Key", "StringEditor", "secret-key") >>)

MAAS ==
    WithForm("MAAS", "oauth1", "maas",
        << Field("api endpoint (http://example.com:5240/MAAS)", "StringEditor",
                 "endpoint", FALSE, TRUE, "endpoint", <<>>),
           Field("api key", "StringEditor", "maas-oauth", TRUE, TRUE,
                 "api_key", <<>>) >>)

\* Localhost declares no form: it stays None.
Localhost ==
    [BaseProvider EXCEPT !.cls = "Localhost", !.auth_type = "interactive",
                         !.cloud_type = "localhost"]

Azure ==
    WithForm("Azure", "service-principal-secret", "azure",
        << PlainField("application id", "StringEditor", "appnlication-id"),
           PlainField("subscription id", "StringEditor", "subscription-id"),
           PlainField("application password", "PasswordEditor",
                      "application-password") >>)

Google ==
    WithForm("Google", "oauth2", "gce",
        << PlainField("private key", "StringEditor", "private-key"),
           PlainField("client id", "StringEditor", "client-id"),
           PlainField("client email", "StringEditor", "client-email"),
           PlainField("project id", "StringEditor", "project-id") >>)

CloudSigma ==
    WithForm("CloudSigma", "userpass", "cloudsigma",
        << PlainField("username", "StringEditor", "username"),
           PlainField("password", "StringEditor", "password") >>)

Joyent ==
    WithForm("Joyent", "userpass", "joyent",
        << PlainField("sdc user", "StringEditor", "sdc-user"),
           PlainField("sdc key id", "StringEditor", "sdc-key-id"),
           PlainField("private key", "StringEditor", "private-key"),
           Field("algorithm", "StringEditor", "algorithm", TRUE, TRUE, "none",
                 RSA_SHA256) >>)

OpenStack ==
    WithForm("OpenStack", "userpass", "openstack",
        << PlainField("username", "StringEditor", "username"),
           PlainField("password", "PasswordEditor", "password"),
           PlainField("domain name", "StringEditor", "domain-name"),
           PlainField("project domain name", "StringEditor", "project-domain-name"),
           PlainField("access key", "StringEditor", "access-key"),
           PlainField("secret key", "StringEditor", "secret-key") >>)

VSphere ==
    WithForm("VSphere", "userpass", "vsphere",
        << Field("api endpoint", "StringEditor", "endpoint", FALSE, TRUE, "none", <<>>),
           PlainField("user", "StringEditor", "user"),
           PlainField("password", "PasswordEditor", "password") >>)

Oracle ==
    WithForm("Oracle", "userpass", "oracle",
        << PlainField("identity domain", "StringEditor", "identity-domain"),
           PlainField("username or e-mail", "StringEditor", "username"),
           PlainField("password", "PasswordEditor", "password") >>)

\* The registry: (identifier, constructor) pairs in declaration order.
Schema ==
    << <<"ec2", AWS>>, <<"maas", MAAS>>, <<"azure", Azure>>, <<"gce", Google>>,
       <<"cloudsigma", CloudSigma>>, <<"joyent", Joyent>>,
       <<"openstack", OpenStack>>, <<"rackspace", OpenStack>>,
       <<"vsphere", VSphere>>, <<"oracle", Oracle>>,
       <<"localhost", Localhost>>, <<"lxd", Localhost>> >>

\* The loop of load_schema from entry i on: [found, entry, scanned]; entry is
\* the index of the first entry whose identifier equals cloud, whose
\* constructor is then called; found = FALSE is raise SchemaError(cloud), with
\* all entries scanned and none constructed.
RECURSIVE LoadSchemaFrom(_, _)
LoadSchemaFrom(cloud, i) ==
    IF i > Len(Schema)
    THEN [found |-> FALSE, entry |-> 0, scanned |-> Len(Schema)]
    ELSE IF cloud = Schema[i][1]
    THEN [found |-> TRUE, entry |-> i, scanned |-> i]
    ELSE LoadSchemaFrom(cloud, i + 1)

\* A lookup that falls back to the first entry for an unknown identifier.
load_schema_Fallback(cloud) ==
    IF LoadSchemaFrom(cloud, 1).found THEN LoadSchemaFrom(cloud, 1)
    ELSE [found |-> TRUE, entry |-> 1, scanned |-> Len(Schema)]

load_schema(cloud) == LoadSchemaFrom(cloud, 1)


(***************************************************************************)
(* cloud_config.  A config dict is a record: keys is the set of its keys,  *)
(* and the fields hold the values of the keys it has.                      *)
(***************************************************************************)
NoRegions == <<>>

\* MAAS.cloud_config() on the Provider p
maas_cloud_config(p) ==
    [keys |-> {"type", "auth-types", "endpoint"},
     type |-> "maas", auth_types |-> <<"oauth1">>, endpoint |-> p.endpoint,
     regions |-> NoRegions]

(***************************************************************************)
(* BaseProvider.load.  The reply of get_cloud is an input: found = FALSE   *)
(* is its LookupError; otherwise the cloud's dict, which may or may not    *)
(* hold 'endpoint' and 'regions' (region names in the dict's order).       *)
(***************************************************************************)

\* The characters of the model in ASCII order, for Python's string comparison.
AsciiOrder ==
    <<"-", ".", "/", "0", "1", "2", "3", "4", "5", "6", "7", "8", "9", ":",
      "A", "B", "M", "S", "a", "b", "c", "d", "e", "f", "g", "h", "i", "j",
      "k", "l", "m", "n", "o", "p", "q", "r", "s", "t", "u", "v", "w", "x",
      "y", "z">>

Ord(c) == CHOOSE i \in 1..Len(AsciiOrder) : AsciiOrder[i] = c

\* s < t for Python strings
RECURSIVE StrLess(_, _)
StrLess(s, t) ==
    IF Len(t) = 0 THEN FALSE
    ELSE IF Len(s) = 0 THEN TRUE
    ELSE IF s[1] = t[1] THEN StrLess(Tail(s), Tail(t))
    ELSE Ord(s[1]) < Ord(t[1])

\* Insert x into the sorted list l, after the elements not greater than it.
RECURSIVE InsertSorted(_, _)
InsertSorted(l, x) ==
    IF Len(l) = 0 THEN <<x>>
    ELSE IF StrLess(x, l[1]) THEN <<x>> \o l
    ELSE <<l[1]>> \o InsertSorted(Tail(l), x)

\* sorted(keys)
RECURSIVE sorted(_)
sorted(keys) ==
    IF Len(keys) = 0 THEN <<>>
    ELSE InsertSorted(sorted(Take(keys, Len(keys) - 1)), keys[Len(keys)])

\* A load that records the cloud's name before it looks the cloud up.
load_AssignsFirst(p, cloud_name, reply) ==
    IF ~reply.found
    THEN [raised |-> "SchemaErrorUnknownCloud",
          provider |-> [p EXCEPT !.cloud = cloud_name]]
    ELSE [raised |-> None,
          provider |-> [p EXCEPT
              !.cloud = cloud_name,
              !.endpoint = IF reply.hasEndpoint THEN reply.endpoint ELSE None,
              !.regions = sorted(IF reply.hasRegions THEN reply.regions ELSE <<>>)]]

\* BaseProvider.load(cloud_name) on provider p: [raised, provider].
load(p, cloud_name, reply) ==
    IF ~reply.found
    THEN [raised |-> "SchemaErrorUnknownCloud", provider |-> p]
    ELSE [raised |-> None,
          provider |-> [p EXCEPT
              !.cloud = cloud_name,
              !.endpoint = IF reply.hasEndpoint THEN reply.endpoint ELSE None,
              !.regions = sorted(IF reply.hasRegions THEN reply.regions ELSE <<>>)]]


(***************************************************************************)
(* Localhost.get_networks and get_storage_pools.  An OrderedDict is a      *)
(* sequence of [key, val] entries with distinct keys.  The replies of the  *)
(* LXD queries are inputs, and each query may raise instead.               *)
(***************************************************************************)
Keys(d) == [i \in 1..Len(d) |-> d[i].key]

HasKey(d, k) == \E i \in 1..Len(d) : d[i].key = k

\* d[k] = v: a new key goes last, an existing key keeps its place.
SetItem(d, k, v) ==
    IF HasKey(d, k)
    THEN [i \in 1..Len(d) |-> IF d[i].key = k THEN [key |-> k, val |-> v] ELSE d[i]]
    ELSE Append(d, [key |-> k, val |-> v])

\* d.move_to_end(k, last=False)
MoveToFront(d, k) ==
    SelectSeq(d, LAMBDA e : e.key = k) \o SelectSeq(d, LAMBDA e : e.key # k)

\* A loop body that stores the bridges and never moves lxdbr0.
AddBridge_NoMove(bridges, net_info) ==
    IF net_info.type = "bridge"
    THEN SetItem(bridges, net_info.name, net_info)
    ELSE bridges

\* provider.py:392-395: a bridge is stored under its name; one named lxdbr0
\* is then moved to the front.
AddBridge(bridges, net_info) ==
    IF net_info.type = "bridge"
    THEN IF net_info.name = "lxdbr0"
         THEN MoveToFront(SetItem(bridges, net_info.name, net_info), "lxdbr0")
         ELSE SetItem(bridges, net_info.name, net_info)
    ELSE bridges

\* provider.py:390-395, one turn of the loop of get_networks: the reply
\* net_info to the query of the next item is taken into the call c.
NetStep(c, net_info) ==
    [c EXCEPT !.networks = Append(@, net_info),
              !.result = AddBridge(@, net_info),
              !.pc = IF Len(c.networks) + 1 = c.n THEN "returned" ELSE "loop"]

DEFAULT == <<"d", "e", "f", "a", "u", "l", "t">>

POOLS_PREFIX ==
    <<"/", "1", ".", "0", "/", "s", "t", "o", "r", "a", "g", "e", "-",
      "p", "o", "o", "l", "s", "/">>

\* PurePath.name of a path with no trailing slash: the last component.
PathName(p) == Drop(p, RFind(p, "/"))

\* PurePath.stem of a name whose last "." is at position i (0: none)
StemAt(name, i) == IF 1 < i /\ i < Len(name) THEN Take(name, i - 1) ELSE name

\* PurePath.stem: the name without its last suffix.
PathStem(p) == StemAt(PathName(p), RFind(PathName(p), "."))

\* provider.py:404-407: the reply to the query of a pool (the record of that
\* pool) is stored under the stem of its path; "default" is moved to the front.
AddPool(_pools, pool) ==
    IF PathStem(pool) = DEFAULT
    THEN MoveToFront(SetItem(_pools, PathStem(pool), [name |-> PathName(pool)]), DEFAULT)
    ELSE SetItem(_pools, PathStem(pool), [name |-> PathName(pool)])

\* provider.py:403-407, one turn of the loop of get_storage_pools: the next
\* pool of the listing is queried and filed.
PoolStep(c) ==
    [c EXCEPT !.i = @ + 1,
              !.result = AddPool(@, c.pools[c.i + 1]),
              !.pc = IF c.i + 1 = Len(c.pools) THEN "returned" ELSE "loop"]

(***************************************************************************)
(* Localhost.query.  PurePosixPath is modelled by its root and its parts:  *)
(* the root is "//" for exactly two leading slashes and "/" for any other  *)
(* number of them; empty and "." components are dropped.                   *)
(***************************************************************************)
V1_PREFIX == <<"/", "1", ".", "0">>

RECURSIVE LeadingSlashes(_)
LeadingSlashes(s) ==
    IF Len(s) > 0 /\ s[1] = "/" THEN 1 + LeadingSlashes(Tail(s)) ELSE 0

PathRoot(s) ==
    IF LeadingSlashes(s) = 0 THEN <<>>
    ELSE IF LeadingSlashes(s) = 2 THEN <<"/", "/">>
    ELSE <<"/">>

PathParts(s) == SelectSeq(Split(s, "/"), LAMBDA part : part # <<>> /\ part # <<".">>)

\* str(path)
PathStr(root, parts) == root \o Join(parts, "/")

\* str(Path(base) / s): an s with a root replaces base.
PathJoin(base, s) ==
    IF PathRoot(s) # <<>>
    THEN PathStr(PathRoot(s), PathParts(s))
    ELSE PathStr(PathRoot(base), PathParts(base) \o PathParts(s))

\* str.upper() on the letters of the method names of the model
UpperChar(c) ==
    CASE c = "g" -> "G" [] c = "e" -> "E" [] c = "t" -> "T" [] c = "p" -> "P"
      [] c = "o" -> "O" [] c = "s" -> "S" [] c = "u" -> "U" [] OTHER -> c

Upper(s) == [i \in 1..Len(s) |-> UpperChar(s[i])]

\* provider.py:363-367, the path handed to lxc
QueryUrl(segment) ==
    IF StartsWith(segment, V1_PREFIX) THEN segment ELSE PathJoin(V1_PREFIX, segment)

\* provider.py:369-370
QueryCmd(segment, method) ==
    [argv |-> <<"lxc", "query", "--wait", "-X">>, method |-> Upper(method),
     url |-> QueryUrl(segment)]

\* Localhost.query(segment, method); outcome is what arun and json.loads do:
\* "ok", "bad_json" (JSONDecodeError), "no_tool" (FileNotFoundError) or
\* "failed" (CalledProcessError).
query(segment, method, outcome) ==
    [cmd |-> QueryCmd(segment, method),
     logged |-> IF outcome = "ok" THEN <<"debug">> ELSE <<"debug", "error">>,
     raised |-> CASE outcome = "ok" -> None
                  [] outcome = "bad_json" -> "LocalhostJSONError"
                  [] outcome = "no_tool" -> "FileNotFoundError"
                  [] outcome = "failed" -> "LocalhostError"]

(***************************************************************************)
(* AWS.configure_tools.  The exit codes of the two aws commands are        *)
(* inputs.  Result: the commands run, in order, what was logged and what   *)
(* was raised.                                                             *)
(***************************************************************************)
NL == "\n"

AwsListCmd(profile) ==
    [argv |-> <<"aws", "configure", "list", "--profile", profile>>,
     input |-> <<>>, check |-> FALSE]

AwsWriteCmd(profile, cred) ==
    [argv |-> <<"aws", "configure", "--profile", profile>>,
     input |-> <<cred.access_key, NL, cred.secret_key, NL, NL, NL>>,
     check |-> TRUE]

\* A configure_tools that writes the profile whatever the check says.
configure_tools_AlwaysWrites(profile, cred, listRet, writeRet) ==
    IF writeRet = 0
    THEN [cmds |-> <<AwsListCmd(profile), AwsWriteCmd(profile, cred)>>,
          logged |-> <<>>, raised |-> None]
    ELSE [cmds |-> <<AwsListCmd(profile), AwsWriteCmd(profile, cred)>>,
          logged |-> <<"Failed to configure AWS CLI profile">>,
          raised |-> "CalledProcessError"]

\* AWS.configure_tools() with self.credential = profile, the credential record
\* cred, and the exit codes listRet and writeRet.
configure_tools(profile, cred, listRet, writeRet) ==
    IF listRet = 0
    THEN [cmds |-> <<AwsListCmd(profile)>>, logged |-> <<>>, raised |-> None]
    ELSE IF writeRet = 0
    THEN [cmds |-> <<AwsListCmd(profile), AwsWriteCmd(profile, cred)>>,
          logged |-> <<>>, raised |-> None]
    ELSE [cmds |-> <<AwsListCmd(profile), AwsWriteCmd(profile, cred)>>,
          logged |-> <<"Failed to configure AWS CLI profile">>,
          raised |-> "CalledProcessError"]

(***************************************************************************)
(* VSphere.login, get_datacenters and cloud_config.  vs holds the          *)
(* attributes of one VSphere Provider: authenticated, client (0 for None,  *)
(* else the number of the VSphereClient built last), cached (_datacenters  *)
(* is not None), datacenters (the list, when cached: the names of the      *)
(* datacenters), endpoint and regions.                                     *)
(***************************************************************************)
VSphereInit == [authenticated |-> FALSE, client |-> 0, cached |-> FALSE,
                datacenters |-> <<>>, endpoint |-> None, regions |-> <<>>]

\* A test of the cache by truth value, which an empty list fails.
CacheHit_Truthy(v) == v.cached /\ v.datacenters # <<>>

\* provider.py:619, `if self._datacenters is not None`
CacheHit(v) == v.cached

\* A get_datacenters that returns the list without keeping it.
StoreDatacenters_Forgets(v, dcs) == v

\* provider.py:625, the assignment of a discovery's result to _datacenters
StoreDatacenters(v, dcs) == [v EXCEPT !.cached = TRUE, !.datacenters = dcs]

\* A login that marks the Provider as it builds the client.
BuildClient_MarksEarly(v) == [v EXCEPT !.client = v.client + 1, !.authenticated = TRUE]

\* provider.py:608, self.client = VSphereClient(cred, self.endpoint)
BuildClient(v) == [v EXCEPT !.client = v.client + 1]

\* provider.py:612, self.authenticated = True
MarkAuthenticated(v) == [v EXCEPT !.authenticated = TRUE]

\* config['regions'] after the loop of provider.py:636-637 over dcs
RECURSIVE RegionsOf(_, _)
RegionsOf(dcs, endpoint) ==
    IF Len(dcs) = 0 THEN <<>>
    ELSE SetItem(RegionsOf(Take(dcs, Len(dcs) - 1), endpoint),
                 dcs[Len(dcs)], [endpoint |-> endpoint])

\* VSphere.cloud_config() once get_datacenters() has returned dcs: the
\* config, and the Provider with its regions refreshed.  endpoint0 is the
\* endpoint read at provider.py:633, before the await.
vsphere_cloud_config(v, endpoint0, dcs) ==
    [config |-> [keys |-> {"type", "auth-types", "endpoint", "regions"},
                 type |-> "vsphere", auth_types |-> <<VSphere.auth_type>>,
                 endpoint |-> endpoint0,
                 regions |-> RegionsOf(dcs, v.endpoint)],
     provider |-> [v EXCEPT !.regions = sorted(Keys(RegionsOf(dcs, v.endpoint)))]]

(***************************************************************************)
(* Bounds and inputs.                                                      *)
(***************************************************************************)
MaxPasses == 2
MaxConstructs == 2
MaxRegions == 2
MaxNets == 3
MaxPools == 3
MaxCalls == 3
MaxInvocations == 2

\* Sequences over S with at most n elements, and those without repetition.
SeqsUpTo(S, n) == UNION {[1..k -> S] : k \in 0..n}

DistinctSeqsUpTo(S, n) ==
    {q \in SeqsUpTo(S, n) : \A i, j \in 1..Len(q) : i # j => q[i] # q[j]}

FieldInputs == {<<>>, <<"x">>}

StandaloneInputs == {<<>>, <<"x">>, <<"x", "y">>}

Verdicts ==
    {[out |-> "ok", msg |-> MSG_NONE, value |-> <<>>],
     [out |-> "fail", msg |-> "custom error", value |-> <<>>],
     [out |-> "fail", msg |-> MSG_NONE, value |-> <<>>]}

NoVerdict == [out |-> "ok", msg |-> MSG_NONE, value |-> <<>>]

\* What a user may type as a MAAS endpoint: bare hosts and addresses, and
\* URLs made of a scheme, a network location and a path.
EndpointBare ==
    {<<"h">>, <<"h", ".", "x">>, <<"h", "!">>, MAAS_SEG,
     <<"1", ".", "1", ".", "1", ".", "1">>,
     <<"1", ".", "1", ".", "1", ".", "1", ":", "1", "2">>,
     <<"2", "5", "6", ".", "1", ".", "1", ".", "1">>,
     <<":", ":", "1">>,
     <<"x", ":", "x", ":", "1", ".", "1", ".", "1", ".", "1">>,
     <<"1", ".", "1", ".", "1", ".", "1", ":", "x", ":", "x">>,
     HTTP \o <<"d", ".", "x">>}

EndpointSchemes ==
    {HTTP \o SCHEME_SEP, HTTPS \o SCHEME_SEP, HTTP \o <<"x">> \o SCHEME_SEP,
     HTTP \o <<":">>}

EndpointNetlocs == {<<>>, <<"h">>, <<"h", ":", "5", "2", "4", "0">>, <<"[">>}

EndpointPaths ==
    {<<>>, <<"/">> \o MAAS_SEG, <<"/", "x">>, <<"/", "x", "/">>}

EndpointInputs ==
    EndpointBare \cup
    {sc \o h \o pa : sc \in EndpointSchemes, h \in EndpointNetlocs, pa \in EndpointPaths}

KeyInputs ==
    {<<>>, <<"a", ":", "b">>, <<"a", ":", "b", ":", "c">>,
     <<"a", ":", "b", ":", "c", ":", "d">>}

\* The values a user can type into a Field, by the validator it carries.
InputsFor(f) ==
    CASE f.validator = "endpoint" -> EndpointInputs
      [] f.validator = "api_key" -> KeyInputs
      [] OTHER -> FieldInputs

\* The Providers whose forms are filled in: plain Fields (AWS), a default
\* value (Joyent), the two validators (MAAS) and no form at all (Localhost).
FormProviders == {AWS, MAAS, Joyent, Localhost}

SchemaIds == {Schema[i][1] : i \in 1..Len(Schema)} \cup {"doesnotexist", "aws"}

CloudNames == {"cloud-a", "cloud-b"}

RegionNames == {<<"a">>, <<"b">>, <<"B">>}

\* The replies of get_cloud: a miss, or a dict with or without its keys.
CloudReplies ==
    {[found |-> FALSE, hasEndpoint |-> FALSE, endpoint |-> None,
      hasRegions |-> FALSE, regions |-> <<>>]}
    \cup {[found |-> TRUE, hasEndpoint |-> FALSE, endpoint |-> None,
           hasRegions |-> FALSE, regions |-> <<>>]}
    \cup {[found |-> TRUE, hasEndpoint |-> TRUE, endpoint |-> "https://ep",
           hasRegions |-> TRUE, regions |-> r] :
             r \in DistinctSeqsUpTo(RegionNames, MaxRegions)}

NetNames == {"lxdbr0", "br1", "br2"}

NetTypes == {"bridge", "physical"}

NetInfos == [name : NetNames, type : NetTypes]

PoolNames ==
    {DEFAULT, DEFAULT \o <<".", "x">>, <<"a">>, <<"a", ".", "b">>, <<"b">>}

PoolUrls == {POOLS_PREFIX \o n : n \in PoolNames}

SegmentHeads ==
    {<<>>, <<"/">>, <<"/", "/">>, <<"/", "1", ".", "0">>, <<"/", "1", ".", "0", "/">>, <<"1", ".", "0", "/">>, <<".", "/">>, <<"/", "1", ".", "0", "x">>}

SegmentTails ==
    {<<>>, <<"n", "e", "t", "w", "o", "r", "k", "s">>,
     <<"n", "e", "t", "w", "o", "r", "k", "s", "/">>,
     <<"a", "/", "/", "b">>,
     <<".", ".">>,
     <<"n", "e", "t", "w", "o", "r", "k", "s", "/", "l", "x", "d", "b", "r", "0">>}

SegmentInputs == {h \o t : h \in SegmentHeads, t \in SegmentTails}

MethodInputs == {<<"G", "E", "T">>, <<"g", "e", "t">>, <<"P", "o", "s", "t">>}

QueryOutcomes == {"ok", "bad_json", "no_tool", "failed"}

DcNames == {<<"d", "c", "1">>, <<"d", "c", "2">>}

DcLists == {<<>>, << <<"d", "c", "1">> >>, << <<"d", "c", "2">>, <<"d", "c", "1">> >>}

VsEndpoints == {None, "https://vcenter"}

Tasks == {1, 2}

Profiles == {"p1", "p2"}

Credentials == [access_key : {"AK1", "AK2"}, secret_key : {"SK1"}]

ExitCodes == {0, 1, 255}


(***************************************************************************)
(* State.                                                                  *)
(***************************************************************************)
VARIABLES
    field,        \* a Field built on its own
    fieldLast,    \* the last validate() on it: what it saw and returned
    formProv,     \* a Provider whose form is being filled in
    passes,       \* the validate() calls on its Fields since the last edit
    validLast,    \* the last is_valid() on it
    prov,         \* the Provider load_schema built last
    constructed,  \* how many Providers load_schema has built
    schemaLast,   \* the last call on prov, when it was load_schema
    loadLast,     \* the last call on prov, when it was load
    configLast,   \* the last call on prov, when it was cloud_config
    queryLast,    \* the last Localhost.query call
    lxdLast,      \* the get_networks / get_storage_pools call in progress or last ended
    vs,           \* the attributes of a VSphere Provider
    vsPc,         \* where each task stands in get_datacenters
    vsCall,       \* per task, what its call in flight has done so far
    vsLog,        \* the calls that have returned or raised, in order
    awsLog        \* the configure_tools invocations, in order

fieldVars == <<field, fieldLast>>
formVars == <<formProv, passes, validLast>>
schemaVars == <<prov, constructed, schemaLast, loadLast, configLast>>
lxdVars == <<lxdLast, queryLast>>
vsVars == <<vs, vsPc, vsCall, vsLog>>
awsVars == <<awsLog>>
vars == <<fieldVars, formVars, schemaVars, lxdVars, vsVars, awsVars>>

NoOp == [op |-> "none"]

NoCall == [op |-> "none", startCached |-> FALSE, startDatacenters |-> <<>>,
           startAuth |-> FALSE, startClient |-> 0, startEndpoint |-> None,
           logins |-> 0, discoveries |-> 0, overlapped |-> FALSE]

Init ==
    /\ field = Field("label", "StringEditor", "key", TRUE, TRUE, "none", <<>>)
    /\ fieldLast = NoOp
    /\ formProv = AWS
    /\ passes = <<>>
    /\ validLast = NoOp
    /\ prov = BaseProvider
    /\ constructed = 0
    /\ schemaLast = NoOp
    /\ loadLast = NoOp
    /\ configLast = NoOp
    /\ lxdLast = NoOp
    /\ queryLast = NoOp
    /\ vs = VSphereInit
    /\ vsPc = [t \in Tasks |-> "idle"]
    /\ vsCall = [t \in Tasks |-> NoCall]
    /\ vsLog = <<>>
    /\ awsLog = <<>>

(***************************************************************************)
(* A Field on its own: construction, an edit, validate().                  *)
(***************************************************************************)
NewField(required, validator) ==
    /\ field' = Field("label", "StringEditor", "key", TRUE, required, validator, <<>>)
    /\ fieldLast' = NoOp
    /\ UNCHANGED <<formVars, schemaVars, lxdVars, vsVars, awsVars>>

FieldSetValue(v) ==
    /\ field' = [field EXCEPT !.value = v]
    /\ fieldLast' = NoOp
    /\ UNCHANGED <<formVars, schemaVars, lxdVars, vsVars, awsVars>>

FieldValidated(verdict, r) ==
    /\ field' = r.form[1]
    /\ fieldLast' = [op |-> "validate", before |-> field, ret |-> r.ret,
                     invoked |-> r.invoked, verdict |-> verdict]

FieldValidate(verdict) ==
    /\ FieldValidated(verdict, validate(<<field>>, 1, verdict))
    /\ UNCHANGED <<formVars, schemaVars, lxdVars, vsVars, awsVars>>

FieldNext ==
    \/ \E required \in BOOLEAN, validator \in {"none", "custom", "noncallable"} :
          NewField(required, validator)
    \/ \E v \in StandaloneInputs : FieldSetValue(v)
    \/ \E verdict \in Verdicts : FieldValidate(verdict)

SpecField == Init /\ [][FieldNext]_vars

(***************************************************************************)
(* A Provider's form: construction, an edit of one Field, validate() on    *)
(* one Field, is_valid().                                                  *)
(***************************************************************************)
NewProvider(p) ==
    /\ formProv' = p
    /\ passes' = <<>>
    /\ validLast' = NoOp
    /\ UNCHANGED <<fieldVars, schemaVars, lxdVars, vsVars, awsVars>>

SetValue(i, v) ==
    /\ formProv.hasForm
    /\ i \in 1..Len(formProv.form)
    /\ v \in InputsFor(formProv.form[i])
    /\ formProv' = [formProv EXCEPT !.form[i].value = v]
    /\ passes' = <<>>
    /\ validLast' = NoOp
    /\ UNCHANGED <<fieldVars, schemaVars, lxdVars, vsVars, awsVars>>

FieldValidatedInForm(i, r) ==
    /\ formProv' = [formProv EXCEPT !.form = r.form]
    /\ passes' = Append(passes,
           [idx |-> i, before |-> formProv.form[i].value, ret |-> r.ret,
            invoked |-> r.invoked, after |-> r.form[i].value,
            error |-> r.form[i].error])

ValidateField(i) ==
    /\ formProv.hasForm
    /\ i \in 1..Len(formProv.form)
    /\ Len(passes) < MaxPasses
    /\ FieldValidatedInForm(i, validate(formProv.form, i, NoVerdict))
    /\ validLast' = NoOp
    /\ UNCHANGED <<fieldVars, schemaVars, lxdVars, vsVars, awsVars>>

\* is_valid() on a Provider with a form; on Localhost, whose form is None, the
\* loop header raises AttributeError before any Field is reached.
IsValidReturned(r) ==
    /\ formProv' = [formProv EXCEPT !.form = r.form]
    /\ validLast' = [op |-> "is_valid", before |-> formProv.form,
                     ret |-> r.ret, calls |-> r.calls]

IsValid ==
    /\ IF formProv.hasForm
       THEN IsValidReturned(is_valid(formProv.form))
       ELSE /\ formProv' = formProv
            /\ validLast' = [op |-> "is_valid", before |-> <<>>,
                             ret |-> "raise", calls |-> <<>>]
    /\ passes' = <<>>
    /\ UNCHANGED <<fieldVars, schemaVars, lxdVars, vsVars, awsVars>>

FormNext ==
    \/ \E p \in FormProviders : NewProvider(p)
    \/ \E i \in 1..4 : \E v \in EndpointInputs \cup KeyInputs \cup FieldInputs :
          SetValue(i, v)
    \/ \E i \in 1..4 : ValidateField(i)
    \/ IsValid

SpecForm == Init /\ [][FormNext]_vars


(***************************************************************************)
(* The registry and load: load_schema(cloud) builds a Provider, load       *)
(* fills it from the reply of get_cloud.                                   *)
(***************************************************************************)
LoadSchemaDone(cloud, r) ==
    /\ prov' = IF r.found THEN Schema[r.entry][2] ELSE prov
    /\ constructed' = IF r.found THEN constructed + 1 ELSE constructed
    /\ schemaLast' = [op |-> "load_schema", cloud |-> cloud, found |-> r.found,
                      entry |-> r.entry, scanned |-> r.scanned,
                      raised |-> IF r.found THEN None ELSE "SchemaError",
                      arg |-> IF r.found THEN None ELSE cloud,
                      constructedBefore |-> constructed,
                      provBefore |-> prov]
    /\ loadLast' = NoOp
    /\ configLast' = NoOp

LoadSchema(cloud) ==
    /\ constructed < MaxConstructs
    /\ LoadSchemaDone(cloud, load_schema(cloud))
    /\ UNCHANGED <<fieldVars, formVars, lxdVars, vsVars, awsVars>>

LoadDone(cloud_name, reply, r) ==
    /\ prov' = r.provider
    /\ loadLast' = [op |-> "load", cloud_name |-> cloud_name, reply |-> reply,
                    before |-> [cloud |-> prov.cloud, endpoint |-> prov.endpoint,
                               regions |-> prov.regions],
                    raised |-> r.raised]
    /\ schemaLast' = NoOp
    /\ configLast' = NoOp
    /\ UNCHANGED constructed

Load(cloud_name, reply) ==
    /\ LoadDone(cloud_name, reply, load(prov, cloud_name, reply))
    /\ UNCHANGED <<fieldVars, formVars, lxdVars, vsVars, awsVars>>

\* cloud_config() on a MAAS Provider
MaasCloudConfig ==
    /\ prov.cls = "MAAS"
    /\ configLast' = [op |-> "cloud_config", config |-> maas_cloud_config(prov)]
    /\ UNCHANGED <<prov, constructed, schemaLast, loadLast>>
    /\ UNCHANGED <<fieldVars, formVars, lxdVars, vsVars, awsVars>>

SchemaNext ==
    \/ \E cloud \in SchemaIds : LoadSchema(cloud)
    \/ \E cloud_name \in CloudNames, reply \in CloudReplies : Load(cloud_name, reply)
    \/ MaasCloudConfig

SpecSchema == Init /\ [][SchemaNext]_vars

(***************************************************************************)
(* Localhost: get_networks and get_storage_pools against the replies of    *)
(* the LXD API.                                                            *)
(***************************************************************************)
LxdIdle == IF lxdLast.op = "none" THEN TRUE ELSE lxdLast.pc # "loop"

\* The state of a call as its listing query returns or raises
Begun(op, ok, n) ==
    IF ~ok THEN "raised" ELSE IF n = 0 THEN "returned" ELSE "loop"

\* provider.py:388-389: query('networks') lists n networks, or raises.
GetNetworksBegin(n, ok) ==
    /\ LxdIdle
    /\ lxdLast' = [op |-> "get_networks", pc |-> Begun("get_networks", ok, n),
                   n |-> IF ok THEN n ELSE 0, networks |-> <<>>, result |-> <<>>]
    /\ UNCHANGED <<fieldVars, formVars, schemaVars, queryLast, vsVars, awsVars>>

\* provider.py:391-396: the query of the next network returns net_info, or
\* raises; after the last one the bridges are returned.
NetQueryReturn(net_info, ok) ==
    /\ lxdLast.op = "get_networks"
    /\ lxdLast.pc = "loop"
    /\ lxdLast' = IF ok THEN NetStep(lxdLast, net_info)
                  ELSE [lxdLast EXCEPT !.pc = "raised", !.result = <<>>]
    /\ UNCHANGED <<fieldVars, formVars, schemaVars, queryLast, vsVars, awsVars>>

\* provider.py:401-402: query('storage-pools') lists the pools, or raises.
GetStoragePoolsBegin(pools, ok) ==
    /\ LxdIdle
    /\ lxdLast' = [op |-> "get_storage_pools",
                   pc |-> Begun("get_storage_pools", ok, Len(pools)),
                   pools |-> IF ok THEN pools ELSE <<>>, i |-> 0, result |-> <<>>]
    /\ UNCHANGED <<fieldVars, formVars, schemaVars, queryLast, vsVars, awsVars>>

\* provider.py:403-408: the query of the next pool returns, or raises; after
\* the last one the pools are returned.
PoolQueryReturn(ok) ==
    /\ lxdLast.op = "get_storage_pools"
    /\ lxdLast.pc = "loop"
    /\ lxdLast' = IF ok THEN PoolStep(lxdLast)
                  ELSE [lxdLast EXCEPT !.pc = "raised", !.result = <<>>]
    /\ UNCHANGED <<fieldVars, formVars, schemaVars, queryLast, vsVars, awsVars>>

LxdNext ==
    \/ \E n \in 0..MaxNets, ok \in BOOLEAN : GetNetworksBegin(n, ok)
    \/ \E net_info \in NetInfos, ok \in BOOLEAN : NetQueryReturn(net_info, ok)
    \/ \E pools \in DistinctSeqsUpTo(PoolUrls, MaxPools), ok \in BOOLEAN :
          GetStoragePoolsBegin(pools, ok)
    \/ \E ok \in BOOLEAN : PoolQueryReturn(ok)

SpecLxd == Init /\ [][LxdNext]_vars

(***************************************************************************)
(* Localhost.query against the lxc tool.                                   *)
(***************************************************************************)
QueryDone(segment, method, outcome, r) ==
    queryLast' = [op |-> "query", segment |-> segment, method |-> method,
                  outcome |-> outcome, cmd |-> r.cmd, logged |-> r.logged,
                  raised |-> r.raised]

Query(segment, method, outcome) ==
    /\ QueryDone(segment, method, outcome, query(segment, method, outcome))
    /\ UNCHANGED <<fieldVars, formVars, schemaVars, lxdLast, vsVars, awsVars>>

QueryNext ==
    \E segment \in SegmentInputs, method \in MethodInputs, outcome \in QueryOutcomes :
        Query(segment, method, outcome)

SpecQuery == Init /\ [][QueryNext]_vars

(***************************************************************************)
(* VSphere.get_datacenters, one step for each stretch of the coroutine     *)
(* between two awaits.  The outcomes of the client's login and of its      *)
(* discovery are inputs.                                                   *)
(***************************************************************************)
InFlight == {t \in Tasks : vsPc[t] # "idle"}

\* What a call knows as it begins: the attributes it found, the logins and
\* discoveries it has asked of the client, and whether another call was in
\* flight with it.
Started(op, logins, discoveries) ==
    [op |-> op, startCached |-> vs.cached, startDatacenters |-> vs.datacenters,
     startAuth |-> vs.authenticated, startClient |-> vs.client,
     startEndpoint |-> vs.endpoint,
     logins |-> logins, discoveries |-> discoveries, overlapped |-> InFlight # {}]

\* The record of the call of task t as it ends, v the attributes it leaves
Ended(t, call, ret, value, v) ==
    [task |-> t, op |-> call.op, startCached |-> call.startCached,
     startDatacenters |-> call.startDatacenters,
     startAuth |-> call.startAuth, startClient |-> call.startClient,
     logins |-> call.logins, discoveries |-> call.discoveries,
     overlapped |-> call.overlapped,
     ret |-> ret, value |-> value, endCached |-> v.cached,
     endAuth |-> v.authenticated, endClient |-> v.client,
     endEndpoint |-> v.endpoint, endRegions |-> v.regions,
     config |-> IF call.op = "cloud_config" /\ ret = "ok"
                THEN vsphere_cloud_config(v, call.startEndpoint, value).config
                ELSE NoOp]

\* Task t suspends at pc with the call record call; the calls in flight
\* learn that they are no longer alone.
Suspend(t, pc, call) ==
    /\ vsPc' = [vsPc EXCEPT ![t] = pc]
    /\ vsCall' = [u \in Tasks |->
                    IF u = t THEN call
                    ELSE IF vsPc[u] # "idle"
                    THEN [vsCall[u] EXCEPT !.overlapped = TRUE]
                    ELSE vsCall[u]]

\* The call of task t ends.
Finish(t, call, ret, value, v) ==
    /\ vsLog' = Append(vsLog, Ended(t, call, ret, value, v))
    /\ vsPc' = [vsPc EXCEPT ![t] = "idle"]
    /\ vsCall' = [vsCall EXCEPT ![t] = NoCall]

\* What returning the datacenters dcs to the caller of op does to the
\* Provider v: cloud_config refreshes its regions (provider.py:636-640).
Returned(op, v, dcs) ==
    IF op = "cloud_config" THEN vsphere_cloud_config(v, v.endpoint, dcs).provider ELSE v

\* provider.py:619-620: the cached list is returned
GdCached(t, op) ==
    /\ CacheHit(vs)
    /\ vs' = Returned(op, vs, vs.datacenters)
    /\ vsLog' = Append(vsLog, Ended(t, Started(op, 0, 0), "ok", vs.datacenters,
                                    Returned(op, vs, vs.datacenters)))
    /\ UNCHANGED <<vsPc, vsCall>>

\* provider.py:622-623 and 602-611: login() builds a client and awaits its login
GdLogin(t, op) ==
    /\ ~CacheHit(vs)
    /\ ~vs.authenticated
    /\ vs' = BuildClient(vs)
    /\ Suspend(t, "login_wait", Started(op, 1, 0))
    /\ UNCHANGED vsLog

\* provider.py:625: already authenticated, the discovery is awaited
GdDiscover(t, op) ==
    /\ ~CacheHit(vs)
    /\ vs.authenticated
    /\ Suspend(t, "disc_wait", Started(op, 0, 1))
    /\ UNCHANGED <<vs, vsLog>>

\* A task calls get_datacenters() and runs to its first await or to its return.
GdBegin(t) ==
    /\ vsPc[t] = "idle"
    /\ Len(vsLog) + Cardinality(InFlight) < MaxCalls
    /\ (GdCached(t, "get_datacenters") \/ GdLogin(t, "get_datacenters")
          \/ GdDiscover(t, "get_datacenters"))
    /\ UNCHANGED <<fieldVars, formVars, schemaVars, lxdVars, awsVars>>

\* A task calls cloud_config(), which calls get_datacenters() (provider.py:636).
CcBegin(t) ==
    /\ vsPc[t] = "idle"
    /\ Len(vsLog) + Cardinality(InFlight) < MaxCalls
    /\ (GdCached(t, "cloud_config") \/ GdLogin(t, "cloud_config")
          \/ GdDiscover(t, "cloud_config"))
    /\ UNCHANGED <<fieldVars, formVars, schemaVars, lxdVars, awsVars>>

\* A task calls login(): a no-op when authenticated (provider.py:602-603),
\* else a client is built and its login awaited (605-611).
LoginBegin(t) ==
    /\ vsPc[t] = "idle"
    /\ Len(vsLog) + Cardinality(InFlight) < MaxCalls
    /\ IF vs.authenticated
       THEN /\ vsLog' = Append(vsLog, Ended(t, Started("login", 0, 0), "ok", <<>>, vs))
            /\ UNCHANGED <<vs, vsPc, vsCall>>
       ELSE /\ vs' = BuildClient(vs)
            /\ Suspend(t, "login_wait", Started("login", 1, 0))
            /\ UNCHANGED vsLog
    /\ UNCHANGED <<fieldVars, formVars, schemaVars, lxdVars, awsVars>>

\* The client's login returns (provider.py:612; get_datacenters goes on to
\* 625) or raises VSphereInvalidLogin, which is raised again (613-614).
LoginReturn(t, ok) ==
    /\ vsPc[t] = "login_wait"
    /\ IF ~ok
       THEN /\ Finish(t, vsCall[t], "raise_login", <<>>, vs)
            /\ UNCHANGED vs
       ELSE IF vsCall[t].op = "login"
       THEN /\ vs' = MarkAuthenticated(vs)
            /\ Finish(t, vsCall[t], "ok", <<>>, MarkAuthenticated(vs))
       ELSE /\ vs' = MarkAuthenticated(vs)
            /\ vsPc' = [vsPc EXCEPT ![t] = "disc_wait"]
            /\ vsCall' = [vsCall EXCEPT ![t].discoveries = 1]
            /\ UNCHANGED vsLog
    /\ UNCHANGED <<fieldVars, formVars, schemaVars, lxdVars, awsVars>>

\* The client's discovery returns dcs (provider.py:625-627) or raises.
DiscReturn(t, ok, dcs) ==
    /\ vsPc[t] = "disc_wait"
    /\ IF ok
       THEN /\ vs' = Returned(vsCall[t].op, StoreDatacenters(vs, dcs), dcs)
            /\ Finish(t, vsCall[t], "ok", dcs,
                      Returned(vsCall[t].op, StoreDatacenters(vs, dcs), dcs))
       ELSE /\ Finish(t, vsCall[t], "raise_discovery", <<>>, vs)
            /\ UNCHANGED vs
    /\ UNCHANGED <<fieldVars, formVars, schemaVars, lxdVars, awsVars>>

\* The Provider's endpoint is set (by the code that owns the Provider).
SetEndpoint(e) ==
    /\ e # vs.endpoint
    /\ vs' = [vs EXCEPT !.endpoint = e]
    /\ UNCHANGED <<vsPc, vsCall, vsLog>>
    /\ UNCHANGED <<fieldVars, formVars, schemaVars, lxdVars, awsVars>>

\* Calls made one after the other: a call begins when none is in flight.
VsNext ==
    \/ \E t \in Tasks : InFlight = {} /\ GdBegin(t)
    \/ \E t \in Tasks : InFlight = {} /\ LoginBegin(t)
    \/ \E t \in Tasks : InFlight = {} /\ CcBegin(t)
    \/ \E e \in VsEndpoints : InFlight = {} /\ SetEndpoint(e)
    \/ \E t \in Tasks, ok \in BOOLEAN : LoginReturn(t, ok)
    \/ \E t \in Tasks, ok \in BOOLEAN, dcs \in DcLists : DiscReturn(t, ok, dcs)

SpecVs == Init /\ [][VsNext]_vars

\* Tasks of one event loop calling get_datacenters() on the same Provider: a
\* task may begin its call while the call of another is suspended at an await.
VsConcNext ==
    \/ \E t \in Tasks : GdBegin(t)
    \/ \E t \in Tasks, ok \in BOOLEAN : LoginReturn(t, ok)
    \/ \E t \in Tasks, ok \in BOOLEAN, dcs \in DcLists : DiscReturn(t, ok, dcs)

SpecVsConc == Init /\ [][VsConcNext]_vars

(***************************************************************************)
(* AWS.configure_tools, invoked again and again.                           *)
(***************************************************************************)
ConfigureToolsDone(profile, cred, listRet, writeRet, r) ==
    awsLog' = Append(awsLog, [profile |-> profile, cred |-> cred,
                              listRet |-> listRet, writeRet |-> writeRet,
                              cmds |-> r.cmds, logged |-> r.logged,
                              raised |-> r.raised])

ConfigureTools(profile, cred, listRet, writeRet) ==
    /\ Len(awsLog) < MaxInvocations
    /\ ConfigureToolsDone(profile, cred, listRet, writeRet,
                          configure_tools(profile, cred, listRet, writeRet))
    /\ UNCHANGED <<fieldVars, formVars, schemaVars, lxdVars, vsVars>>

AwsNext ==
    \E profile \in Profiles, cred \in Credentials :
        \E listRet \in ExitCodes, writeRet \in ExitCodes :
            ConfigureTools(profile, cred, listRet, writeRet)

SpecAws == Init /\ [][AwsNext]_vars

(***************************************************************************)
(* Properties of Field.validate and BaseProvider.is_valid.                 *)
(***************************************************************************)

\* C1: a required Field with an empty value fails validate() with the
\* required-field message and its custom validator is not called; any other
\* Field gets the verdict of its custom validator (whose message becomes the
\* error text on failure), or passes when it has none; the error text of the
\* previous pass is cleared, so that a passing validate() leaves it empty.
C1_ValidateContract ==
    fieldLast.op = "validate" =>
        /\ IF fieldLast.before.required /\ fieldLast.before.value = <<>>
           THEN /\ fieldLast.ret = "false"
                /\ field.error = MSG_REQUIRED
                /\ ~fieldLast.invoked
           ELSE IF fieldLast.before.validator = "custom"
           THEN /\ fieldLast.invoked
                /\ fieldLast.ret = (IF fieldLast.verdict.out = "ok" THEN "true" ELSE "false")
                /\ (fieldLast.verdict.out # "ok" => field.error = fieldLast.verdict.msg)
           ELSE fieldLast.ret = "true" /\ ~fieldLast.invoked
        /\ (fieldLast.ret = "true" => field.error = MSG_NONE)
        /\ field.value = fieldLast.before.value

\* A required Field that carries a custom validator and the error text of an
\* earlier failure is validated with an empty value.
C1_Witness ==
    /\ fieldLast.op = "validate"
    /\ fieldLast.before.required
    /\ fieldLast.before.value = <<>>
    /\ fieldLast.before.validator = "custom"
    /\ fieldLast.before.error = "custom error"
    /\ fieldLast.ret = "false"
    /\ field.error = MSG_REQUIRED

\* C2: an is_valid() that returns has called validate() on every Field of the
\* form exactly once, in declaration order, whether or not an earlier Field
\* failed; it returns true exactly when every validate() returned true, and
\* every Field that failed then carries a non-empty error text.
C2_IsValidNoShortCircuit ==
    (validLast.op = "is_valid" /\ validLast.ret \in {"true", "false"}) =>
        /\ Len(validLast.calls) = Len(validLast.before)
        /\ \A k \in 1..Len(validLast.calls) : validLast.calls[k].idx = k
        /\ (validLast.ret = "true") <=>
              (\A k \in 1..Len(validLast.calls) : validLast.calls[k].ret = "true")
        /\ \A k \in 1..Len(validLast.calls) :
              validLast.calls[k].ret = "false" => formProv.form[k].error # MSG_NONE

\* is_valid() on the MAAS form with both Fields failing: the endpoint fails
\* its validator, and the empty API key is still validated and reported.
C2_Witness ==
    /\ validLast.op = "is_valid"
    /\ formProv.cls = "MAAS"
    /\ validLast.ret = "false"
    /\ Len(validLast.calls) = 2
    /\ validLast.calls[1].ret = "false"
    /\ validLast.calls[2].ret = "false"
    /\ formProv.form[1].error = MSG_FORMAT
    /\ formProv.form[2].error = MSG_REQUIRED

\* is_valid() does not return when a validator raises: urlparse raises
\* ValueError on an unbalanced bracket, outside the validator's try block.
IsValidRaises ==
    /\ validLast.op = "is_valid"
    /\ formProv.cls = "MAAS"
    /\ validLast.ret = "raise"
    /\ Len(validLast.calls) = 1

(***************************************************************************)
(* Properties of the MAAS endpoint validator.                              *)
(***************************************************************************)

\* The pass k of the validate() calls is one of the MAAS endpoint Field in
\* which the endpoint validator was called.
EndpointPass(k) ==
    /\ formProv.cls = "MAAS"
    /\ k \in 1..Len(passes)
    /\ passes[k].idx = FormField(formProv.form, "endpoint")
    /\ passes[k].invoked

\* C5: when the endpoint validator accepts an input, running it again on the
\* value it wrote into the Field succeeds and leaves that value unchanged.
C5_EndpointIdempotent ==
    \A k \in 1..(Len(passes) - 1) :
        (EndpointPass(k) /\ EndpointPass(k + 1) /\ passes[k].ret = "true") =>
            /\ passes[k + 1].ret = "true"
            /\ passes[k + 1].after = passes[k].after

\* The same for the inputs whose scheme is http or https, and for those with
\* no scheme at all: the rewritten value is a fixed point of the validator.
EndpointIdempotentHttp ==
    \A k \in 1..(Len(passes) - 1) :
        (/\ EndpointPass(k) /\ EndpointPass(k + 1) /\ passes[k].ret = "true"
         /\ (StartsWith(passes[k].before, HTTP)
                => UrlSplit(passes[k].before, <<>>).scheme \in {HTTP, HTTPS})) =>
            /\ passes[k + 1].ret = "true"
            /\ passes[k + 1].after = passes[k].after

\* A decimal port number
IsPort(s) == Len(s) > 0 /\ \A i \in 1..Len(s) : s[i] \in Digits

\* The canonical endpoint http://<ip>:<port>/MAAS
Canonical(ip, port) ==
    HTTP \o SCHEME_SEP \o ip \o <<":">> \o port \o <<"/">> \o MAAS_SEG

\* The third input shape: no "http" prefix and not a valid hostname.
ThirdShape(e) == ~StartsWith(e, HTTP) /\ ~is_valid_hostname(e)

\* e has the form ip:port, split at its last colon
IsIpPort(e) ==
    /\ HasChar(e, ":")
    /\ IsIPAddress(Take(e, RFind(e, ":") - 1))
    /\ IsPort(Drop(e, RFind(e, ":")))

\* C6: an input of the third shape is accepted exactly when it is ip or
\* ip:port with ip a valid IPv4 or IPv6 address; the Field's value then
\* becomes http://<ip>:<port>/MAAS, the port defaulting to 5240; any other
\* such input fails with the canonical-format message, the value unchanged.
C6_IpOrIpPortOnly ==
    \A k \in 1..Len(passes) :
        (EndpointPass(k) /\ ThirdShape(passes[k].before)) =>
            IF IsIPAddress(passes[k].before)
            THEN /\ passes[k].ret = "true"
                 /\ passes[k].after = Canonical(passes[k].before, DEFAULT_PORT)
            ELSE IF IsIpPort(passes[k].before)
            THEN /\ passes[k].ret = "true"
                 /\ passes[k].after =
                       Canonical(Take(passes[k].before, RFind(passes[k].before, ":") - 1),
                                 Drop(passes[k].before, RFind(passes[k].before, ":")))
            ELSE /\ passes[k].ret = "false"
                 /\ passes[k].error = MSG_FORMAT
                 /\ passes[k].after = passes[k].before

\* What the code does hold to: IPv4 addresses, alone or followed by one colon
\* and a port, are accepted and rewritten to the canonical endpoint.
EndpointIPv4Accepted ==
    \A k \in 1..Len(passes) :
        (EndpointPass(k) /\ ThirdShape(passes[k].before)) =>
            /\ IsIPv4(passes[k].before) =>
                  /\ passes[k].ret = "true"
                  /\ passes[k].after = Canonical(passes[k].before, DEFAULT_PORT)
            /\ (IsIpPort(passes[k].before) /\ IsIPv4(BeforeChar(passes[k].before, ":"))) =>
                  /\ passes[k].ret = "true"
                  /\ passes[k].after =
                        Canonical(BeforeChar(passes[k].before, ":"),
                                  AfterChar(passes[k].before, ":"))
            /\ passes[k].ret = "false" =>
                  /\ passes[k].error = MSG_FORMAT
                  /\ passes[k].after = passes[k].before


(***************************************************************************)
(* Properties of load_schema and BaseProvider.load.                        *)
(***************************************************************************)

\* The entries of the registry whose identifier is cloud
Matches(cloud) == {i \in 1..Len(Schema) : Schema[i][1] = cloud}

\* The least element of a non-empty set of numbers
Least(S) == CHOOSE i \in S : \A j \in S : i <= j

\* A Provider as its constructor leaves it when called with no argument
Fresh(p) ==
    /\ p.cloud = None /\ p.endpoint = None /\ p.region = None
    /\ p.credential = None /\ p.regions = <<>> /\ ~p.authenticated
    /\ \A i \in 1..Len(p.form) : p.form[i].error = MSG_NONE
    /\ \A i \in 1..Len(p.form) :
          p.form[i].value = <<>> \/ (p.cls = "Joyent" /\ p.form[i].value = RSA_SHA256)

\* C3: load_schema(id) scans the registry in declaration order and builds,
\* with no argument, the first entry whose identifier is id; "rackspace" and
\* "openstack" build the same type with the same Fields, as do "lxd" and
\* "localhost"; an id that matches no entry builds nothing and raises
\* SchemaError carrying that id.
C3_LoadSchema ==
    schemaLast.op = "load_schema" =>
        /\ IF Matches(schemaLast.cloud) # {}
           THEN /\ schemaLast.raised = None
                /\ schemaLast.entry = Least(Matches(schemaLast.cloud))
                /\ schemaLast.scanned = schemaLast.entry
                /\ constructed = schemaLast.constructedBefore + 1
                /\ prov.cloud_type = Schema[schemaLast.entry][2].cloud_type
                /\ prov.cls = Schema[schemaLast.entry][2].cls
                /\ Fresh(prov)
           ELSE /\ schemaLast.raised = "SchemaError"
                /\ schemaLast.arg = schemaLast.cloud
                /\ constructed = schemaLast.constructedBefore
                /\ prov = schemaLast.provBefore
        /\ schemaLast.cloud \in {"rackspace", "openstack"} =>
              /\ prov.cls = "OpenStack"
              /\ prov.form = OpenStack.form
              /\ [i \in 1..Len(prov.form) |-> prov.form[i].key] =
                    <<"username", "password", "domain-name", "project-domain-name",
                      "access-key", "secret-key">>
        /\ schemaLast.cloud \in {"lxd", "localhost"} =>
              /\ prov.cls = "Localhost"
              /\ prov = Localhost

\* "rackspace", an entry that follows the one of the same constructor, is
\* looked up after another Provider had been built.
C3_Witness ==
    /\ schemaLast.op = "load_schema"
    /\ schemaLast.cloud = "rackspace"
    /\ schemaLast.provBefore.cls = "MAAS"
    /\ prov.cls = "OpenStack"
    /\ constructed = 2

\* An unknown identifier is looked up after a Provider had been built.
C3_WitnessMiss ==
    /\ schemaLast.op = "load_schema"
    /\ schemaLast.cloud = "doesnotexist"
    /\ schemaLast.raised = "SchemaError"
    /\ schemaLast.provBefore.cls = "AWS"
    /\ prov.cls = "AWS"
    /\ constructed = 1

\* r is l in ascending order
IsSortedOf(r, l) ==
    /\ Len(r) = Len(l)
    /\ Range(r) = Range(l)
    /\ \A i \in 1..Len(r) : \A j \in 1..Len(r) : i < j => ~StrLess(r[j], r[i])

\* C4: a load whose lookup misses raises SchemaErrorUnknownCloud and leaves
\* cloud, endpoint and regions as they were; one that hits sets cloud to the
\* name, endpoint to the reply's endpoint (None when it has none) and regions
\* to the reply's region names in ascending order (empty when it has none).
C4_Load ==
    loadLast.op = "load" =>
        IF ~loadLast.reply.found
        THEN /\ loadLast.raised = "SchemaErrorUnknownCloud"
             /\ prov.cloud = loadLast.before.cloud
             /\ prov.endpoint = loadLast.before.endpoint
             /\ prov.regions = loadLast.before.regions
        ELSE /\ loadLast.raised = None
             /\ prov.cloud = loadLast.cloud_name
             /\ prov.endpoint = (IF loadLast.reply.hasEndpoint
                                 THEN loadLast.reply.endpoint ELSE None)
             /\ IsSortedOf(prov.regions,
                           IF loadLast.reply.hasRegions THEN loadLast.reply.regions
                           ELSE <<>>)

\* A miss on a Provider that an earlier load had filled: the name, the
\* endpoint and the two regions of the earlier cloud are still there.
C4_Witness ==
    /\ loadLast.op = "load"
    /\ ~loadLast.reply.found
    /\ loadLast.cloud_name = "cloud-b"
    /\ loadLast.before.cloud = "cloud-a"
    /\ prov.cloud = "cloud-a"
    /\ prov.endpoint = "https://ep"
    /\ prov.regions = << <<"B">>, <<"a">> >>

\* A hit whose reply lists its regions out of order
C4_WitnessSorted ==
    /\ loadLast.op = "load"
    /\ loadLast.reply.found
    /\ loadLast.reply.regions = << <<"b">>, <<"a">> >>
    /\ prov.regions = << <<"a">>, <<"b">> >>


(***************************************************************************)
(* Properties of Localhost.get_networks and get_storage_pools.             *)
(***************************************************************************)

\* No key twice
DistinctKeys(d) ==
    \A i \in 1..Len(d) : \A j \in 1..Len(d) : d[i].key = d[j].key => i = j

\* The items of the reply that are bridges
BridgeItems(networks) == {i \in 1..Len(networks) : networks[i].type = "bridge"}

\* Where the bridge named n comes first in the reply
FirstBridge(networks, n) ==
    Least({i \in BridgeItems(networks) : networks[i].name = n})

\* The keys other than front keep, in d, the order that first gives them
KeepsOrder(d, front, first(_)) ==
    \A i \in 1..Len(d) : \A j \in 1..Len(d) :
        (d[i].key # front /\ d[j].key # front /\ i < j) =>
            first(d[i].key) < first(d[j].key)

\* C7: get_networks() returns an ordered mapping of exactly the bridges of
\* the reply, each under its name; a bridge named lxdbr0, wherever it is in
\* the reply, comes first, and the other bridges keep the order they have in
\* the reply (all of them, when none is named lxdbr0).
C7_GetNetworks ==
    (lxdLast.op = "get_networks" /\ lxdLast.pc = "returned") =>
        /\ DistinctKeys(lxdLast.result)
        /\ Range(Keys(lxdLast.result)) =
              {lxdLast.networks[i].name : i \in BridgeItems(lxdLast.networks)}
        /\ \A i \in 1..Len(lxdLast.result) :
              /\ lxdLast.result[i].val.name = lxdLast.result[i].key
              /\ lxdLast.result[i].val.type = "bridge"
        /\ HasKey(lxdLast.result, "lxdbr0") => lxdLast.result[1].key = "lxdbr0"
        /\ KeepsOrder(lxdLast.result, "lxdbr0",
                      LAMBDA n : FirstBridge(lxdLast.networks, n))

\* The bridge lxdbr0 is the last of three bridges of the reply and the first
\* of the result, the other two in their order.
C7_Witness ==
    /\ lxdLast.op = "get_networks"
    /\ lxdLast.pc = "returned"
    /\ Len(lxdLast.networks) = 3
    /\ lxdLast.networks[3] = [name |-> "lxdbr0", type |-> "bridge"]
    /\ Keys(lxdLast.result) = <<"lxdbr0", "br2", "br1">>

\* The pool named n in the reply
PoolItem(pools, n) == CHOOSE i \in 1..Len(pools) : PathName(pools[i]) = n

\* C8: get_storage_pools() returns an ordered mapping with one entry for each
\* pool of the reply, under the pool's name; the pool named default comes
\* first, every other pool keeps its place in the order of the reply, and no
\* pool with another name is moved or merged with another entry.
C8_GetStoragePools ==
    (lxdLast.op = "get_storage_pools" /\ lxdLast.pc = "returned") =>
        /\ Len(lxdLast.result) = Len(lxdLast.pools)
        /\ Range(Keys(lxdLast.result)) =
              {PathName(lxdLast.pools[i]) : i \in 1..Len(lxdLast.pools)}
        /\ \A i \in 1..Len(lxdLast.result) :
              lxdLast.result[i].val.name = lxdLast.result[i].key
        /\ HasKey(lxdLast.result, DEFAULT) => lxdLast.result[1].key = DEFAULT
        /\ KeepsOrder(lxdLast.result, DEFAULT, LAMBDA n : PoolItem(lxdLast.pools, n))

\* The names of the reply have no dot
DotFree(pools) == \A i \in 1..Len(pools) : ~HasChar(PathName(pools[i]), ".")

\* The same holds for the replies whose pool names have no dot.
StoragePoolsDotFree ==
    (lxdLast.op = "get_storage_pools" /\ DotFree(lxdLast.pools)) => C8_GetStoragePools

\* A pool named default.x is filed under default and moved to the front.
StoragePoolsStemmed ==
    /\ lxdLast.op = "get_storage_pools"
    /\ lxdLast.pc = "returned"
    /\ Len(lxdLast.pools) = 2
    /\ PathName(lxdLast.pools[1]) = <<"a">>
    /\ PathName(lxdLast.pools[2]) = DEFAULT \o <<".", "x">>
    /\ Keys(lxdLast.result) = <<DEFAULT, <<"a">> >>


(***************************************************************************)
(* Properties of VSphere.get_datacenters.                                  *)
(***************************************************************************)

\* The calls whose discovery returned a list
Discovered == {k \in 1..Len(vsLog) : vsLog[k].ret = "ok" /\ vsLog[k].discoveries = 1}

\* The calls that ask for the datacenters
Asks(k) == vsLog[k].op # "login"

\* C9: in a series of calls made one after the other, at most one discovery
\* succeeds; once one has returned a list, even an empty one, every later
\* call returns that list without a login or a call of the client; a call
\* whose login or discovery fails leaves the cache unset, and the call after
\* it attempts the discovery again.
C9_Memoized ==
    /\ Cardinality(Discovered) <= 1
    /\ \A j \in 1..Len(vsLog) : \A k \in 1..Len(vsLog) :
          (j < k /\ Asks(j) /\ Asks(k) /\ vsLog[j].ret = "ok") =>
              /\ vsLog[k].ret = "ok"
              /\ vsLog[k].value = vsLog[j].value
              /\ vsLog[k].logins = 0
              /\ vsLog[k].discoveries = 0
    /\ \A k \in 1..Len(vsLog) :
          (Asks(k) /\ vsLog[k].ret # "ok") =>
              /\ ~vsLog[k].endCached
              /\ (k < Len(vsLog) /\ Asks(k + 1)) =>
                    /\ ~vsLog[k + 1].startCached
                    /\ vsLog[k + 1].logins + vsLog[k + 1].discoveries >= 1
                    /\ vsLog[k + 1].ret # "raise_login" => vsLog[k + 1].discoveries = 1
    /\ (InFlight = {} /\ vsLog # <<>>) =>
          (vs.cached <=> \E k \in 1..Len(vsLog) : Asks(k) /\ vsLog[k].ret = "ok")

\* A discovery fails, the next call discovers an empty list, and the call
\* after that returns the empty list from the cache.
C9_Witness ==
    /\ Len(vsLog) = 3
    /\ vsLog[1].ret = "raise_discovery"
    /\ vsLog[2].ret = "ok" /\ vsLog[2].value = <<>> /\ vsLog[2].discoveries = 1
    /\ vsLog[2].logins = 0
    /\ vsLog[3].ret = "ok" /\ vsLog[3].value = <<>> /\ vsLog[3].startCached
    /\ vsLog[3].discoveries = 0


(***************************************************************************)
(* Properties of AWS.configure_tools.                                      *)
(***************************************************************************)

\* The commands of an invocation that configure a profile
Writes(inv) ==
    {i \in 1..Len(inv.cmds) : /\ inv.cmds[i].argv[2] = "configure"
                              /\ inv.cmds[i].argv[3] # "list"}

\* The commands of an invocation that list a profile
Lists(inv) ==
    {i \in 1..Len(inv.cmds) : inv.cmds[i].argv[3] = "list"}

\* C10: every invocation runs the check of the profile once, and first; when
\* the check exits 0 nothing is written; when it does not, one command
\* writes the same profile, and is fed the access key, the secret key and two
\* blank lines; a write that fails is logged and raised again.
C10_ConfigureTools ==
    \A k \in 1..Len(awsLog) :
        /\ Lists(awsLog[k]) = {1}
        /\ awsLog[k].cmds[1].argv =
              <<"aws", "configure", "list", "--profile", awsLog[k].profile>>
        /\ ~awsLog[k].cmds[1].check
        /\ awsLog[k].cmds[1].input = <<>>
        /\ IF awsLog[k].listRet = 0
           THEN /\ Writes(awsLog[k]) = {}
                /\ awsLog[k].raised = None
                /\ awsLog[k].logged = <<>>
           ELSE /\ Writes(awsLog[k]) = {2}
                /\ awsLog[k].cmds[2].argv =
                      <<"aws", "configure", "--profile", awsLog[k].profile>>
                /\ awsLog[k].cmds[2].input =
                      <<awsLog[k].cred.access_key, "\n", awsLog[k].cred.secret_key,
                        "\n", "\n", "\n">>
                /\ awsLog[k].cmds[2].check
                /\ IF awsLog[k].writeRet = 0
                   THEN awsLog[k].raised = None /\ awsLog[k].logged = <<>>
                   ELSE /\ awsLog[k].raised = "CalledProcessError"
                        /\ Len(awsLog[k].logged) = 1

\* A profile whose check fails is written, the write fails and is raised;
\* invoked again with the check passing, nothing is written.
C10_Witness ==
    /\ Len(awsLog) = 2
    /\ awsLog[1].profile = "p1" /\ awsLog[2].profile = "p1"
    /\ awsLog[1].listRet = 255 /\ awsLog[1].writeRet = 1
    /\ awsLog[1].raised = "CalledProcessError"
    /\ Len(awsLog[1].cmds) = 2
    /\ awsLog[2].listRet = 0
    /\ Len(awsLog[2].cmds) = 1


(***************************************************************************)
(* Properties of Localhost.query.                                          *)
(***************************************************************************)

\* C11: the path handed to lxc always begins with /1.0: a segment that
\* starts with /1.0 is passed through unchanged, and any other segment,
\* empty, relative or beginning with a slash, is put under /1.0.
C11_QueryPathPrefixed ==
    queryLast.op = "query" =>
        /\ StartsWith(queryLast.cmd.url, V1_PREFIX)
        /\ IF StartsWith(queryLast.segment, V1_PREFIX)
           THEN queryLast.cmd.url = queryLast.segment
           ELSE PathParts(queryLast.cmd.url) = <<Tail(V1_PREFIX)>> \o PathParts(queryLast.segment)

\* The same for the segments that do not begin with a slash, and for those
\* that start with /1.0.
QueryRelativePrefixed ==
    (queryLast.op = "query"
       /\ (StartsWith(queryLast.segment, V1_PREFIX) \/ ~StartsWith(queryLast.segment, <<"/">>)))
        => C11_QueryPathPrefixed

\* The segment /networks is handed to lxc as it is.
QueryAbsoluteSegment ==
    /\ queryLast.op = "query"
    /\ queryLast.segment = <<"/">> \o <<"n", "e", "t", "w", "o", "r", "k", "s">>
    /\ queryLast.cmd.url = queryLast.segment
    /\ queryLast.cmd.method = <<"G", "E", "T">>


(***************************************************************************)
(* Properties of VSphere.login.                                            *)
(***************************************************************************)

\* A login of the client has returned in the call k of the log
Authenticates(k) == ~vsLog[k].startAuth /\ vsLog[k].endAuth /\ vsLog[k].logins = 1

\* C13: in a series of login() calls, authenticated is false until a login
\* of the client has returned; a login of the client that fails is raised
\* again and leaves authenticated false; once authenticated is true, login()
\* builds no client and asks no login of the client, and authenticated
\* stays true.
C13_Login ==
    /\ \A k \in 1..Len(vsLog) :
          vsLog[k].op = "login" =>
              IF vsLog[k].startAuth
              THEN /\ vsLog[k].ret = "ok"
                   /\ vsLog[k].logins = 0
                   /\ vsLog[k].endClient = vsLog[k].startClient
                   /\ vsLog[k].endAuth
              ELSE /\ vsLog[k].logins = 1
                   /\ vsLog[k].endClient = vsLog[k].startClient + 1
                   /\ vsLog[k].ret \in {"ok", "raise_login"}
                   /\ vsLog[k].endAuth <=> vsLog[k].ret = "ok"
    /\ \A j \in 1..Len(vsLog) : \A k \in 1..Len(vsLog) :
          (j < k /\ vsLog[j].endAuth) => (vsLog[k].startAuth /\ vsLog[k].endAuth)
    /\ vs.authenticated =>
          \/ \E k \in 1..Len(vsLog) : Authenticates(k)
          \/ \E t \in Tasks : vsPc[t] = "disc_wait" /\ vsCall[t].logins = 1
    /\ (\E k \in 1..Len(vsLog) : vsLog[k].endAuth) => vs.authenticated
    /\ \A t \in Tasks : vsPc[t] = "login_wait" => ~vs.authenticated

\* authenticated is never reset.
AuthenticatedStays == [][vs.authenticated => vs'.authenticated]_vars

\* A login() fails, the next one succeeds with a second client, and the third
\* does nothing.
C13_Witness ==
    /\ Len(vsLog) = 3
    /\ \A k \in 1..3 : vsLog[k].op = "login"
    /\ vsLog[1].ret = "raise_login" /\ ~vsLog[1].endAuth /\ vsLog[1].endClient = 1
    /\ vsLog[2].ret = "ok" /\ vsLog[2].endAuth /\ vsLog[2].endClient = 2
    /\ vsLog[3].ret = "ok" /\ vsLog[3].startAuth /\ vsLog[3].logins = 0
    /\ vsLog[3].endClient = 2
    /\ vs.authenticated


(***************************************************************************)
(* Properties of cloud_config.                                             *)
(***************************************************************************)

\* The config has type, auth-types with the one auth type, and the endpoint.
ConfigHead(config, type, auth_type, endpoint) ==
    /\ {"type", "auth-types", "endpoint"} \subseteq config.keys
    /\ config.type = type
    /\ config.auth_types = <<auth_type>>
    /\ config.endpoint = endpoint

\* The config has regions, a mapping of exactly the names to {endpoint}.
ConfigRegions(config, names, endpoint) ==
    /\ "regions" \in config.keys
    /\ DistinctKeys(config.regions)
    /\ Range(Keys(config.regions)) = names
    /\ \A i \in 1..Len(config.regions) : config.regions[i].val = [endpoint |-> endpoint]

\* The cloud_config() calls of the VSphere Provider that returned
Configs == {k \in 1..Len(vsLog) : vsLog[k].op = "cloud_config" /\ vsLog[k].ret = "ok"}

\* What cloud_config() of VSphere holds to: the config has type, auth-types,
\* endpoint and the regions of the datacenters, and the Provider's regions
\* are their names in ascending order.
VSphereCloudConfig ==
    \A k \in Configs :
        /\ ConfigHead(vsLog[k].config, "vsphere", VSphere.auth_type, vsLog[k].endEndpoint)
        /\ ConfigRegions(vsLog[k].config, Range(vsLog[k].value), vsLog[k].endEndpoint)
        /\ Range(vsLog[k].endRegions) = Range(vsLog[k].value)
        /\ \A i \in 1..Len(vsLog[k].endRegions) : \A j \in 1..Len(vsLog[k].endRegions) :
              i < j => StrLess(vsLog[k].endRegions[i], vsLog[k].endRegions[j])

\* What cloud_config() of MAAS holds to: type, auth-types and endpoint.
MaasCloudConfigHead ==
    configLast.op = "cloud_config" =>
        ConfigHead(configLast.config, "maas", MAAS.auth_type, prov.endpoint)

\* C12: the config returned by cloud_config() of MAAS and of VSphere holds
\* type, auth-types (the one auth type of the Provider), endpoint (the
\* Provider's endpoint) and regions, a mapping from region name to
\* {endpoint}; for VSphere the regions are exactly the names of the
\* datacenters, each with the Provider's endpoint, and the Provider's regions
\* are those names in ascending order after the call.
C12_CloudConfigShape ==
    /\ VSphereCloudConfig
    /\ configLast.op = "cloud_config" =>
          /\ ConfigHead(configLast.config, "maas", MAAS.auth_type, prov.endpoint)
          /\ "regions" \in configLast.config.keys
          /\ \A i \in 1..Len(configLast.config.regions) :
                configLast.config.regions[i].val = [endpoint |-> prov.endpoint]

\* cloud_config() of a MAAS Provider with an endpoint returns no regions.
MaasConfigWithoutRegions ==
    /\ configLast.op = "cloud_config"
    /\ prov.endpoint = "https://ep"
    /\ configLast.config.endpoint = "https://ep"
    /\ configLast.config.keys = {"type", "auth-types", "endpoint"}

\* cloud_config() of VSphere discovers two datacenters and leaves their
\* names, sorted, in the Provider's regions.
VSphereConfigWithRegions ==
    /\ Len(vsLog) >= 1
    /\ vsLog[1].op = "cloud_config"
    /\ vsLog[1].ret = "ok"
    /\ vsLog[1].endEndpoint = "https://vcenter"
    /\ Keys(vsLog[1].config.regions) = << <<"d", "c", "2">>, <<"d", "c", "1">> >>
    /\ vs.regions = << <<"d", "c", "1">>, <<"d", "c", "2">> >>


(***************************************************************************)
(* Properties of get_datacenters called by several tasks.                  *)
(***************************************************************************)

\* The calls in which a login of the client returned
LoggedIn == {k \in 1..Len(vsLog) : vsLog[k].logins = 1 /\ vsLog[k].ret # "raise_login"}

\* The calls that were never in flight together with another
Alone == {k \in 1..Len(vsLog) : ~vsLog[k].overlapped}

\* C14: the cache is safe only with one call in flight at a time.  Among the
\* calls that were never in flight with another, at most one discovery and
\* at most one login of the client succeed; two calls that both discovered,
\* or both logged in, were in flight together and had both found the cache
\* unset.
C14_SafeOnlyAlone ==
    /\ Cardinality(Discovered \cap Alone) <= 1
    /\ Cardinality(LoggedIn \cap Alone) <= 1
    /\ \A j \in Discovered : \A k \in Discovered :
          j # k => (/\ vsLog[j].overlapped /\ vsLog[k].overlapped
                    /\ ~vsLog[j].startCached /\ ~vsLog[k].startCached)
    /\ \A j \in LoggedIn : \A k \in LoggedIn :
          j # k => (/\ vsLog[j].overlapped /\ vsLog[k].overlapped
                    /\ ~vsLog[j].startAuth /\ ~vsLog[k].startAuth)
    /\ \A k \in Alone : vsLog[k].startCached =>
          (vsLog[k].logins = 0 /\ vsLog[k].discoveries = 0)

\* Two tasks found the cache unset; each logged in with a client of its own
\* and each discovered, the second list replacing the first in the cache.
C14_Witness ==
    /\ Len(vsLog) = 2
    /\ vsLog[1].task # vsLog[2].task
    /\ \A k \in 1..2 : /\ vsLog[k].ret = "ok" /\ vsLog[k].logins = 1
                       /\ vsLog[k].discoveries = 1 /\ vsLog[k].overlapped
                       /\ ~vsLog[k].startCached
    /\ vsLog[1].value # vsLog[2].value
    /\ vs.client = 2
    /\ vs.datacenters = vsLog[2].value

\* With calls in flight together the discovery does not succeed at most once.
DiscoveredOnceWhateverTheCallers == Cardinality(Discovered) <= 1

=============================================================================
